---- MODULE Spec2Model ----
(***************************************************************************)
(* The Cairo AIR of the STARK prover                                       *)
(* (proving_system/stark/src/air/example/cairo.rs).                        *)
(*                                                                         *)
(* Field elements are modelled by their canonical representatives in      *)
(* 0..FieldOrder-1.  The Stark-252 prime does not fit TLC's integers, so   *)
(* the field is a small prime field; the powers 2^15, 2^16, 2^32, 2^48     *)
(* are reduced in it and stay pairwise distinct and different from 1.      *)
(* Tables are sequences of rows, a row is a function from the column       *)
(* index (0-based, as in the source) to a field element; streams are       *)
(* sequences, so index i of the source is position i+1 here.               *)
(***************************************************************************)
EXTENDS Integers, Sequences, FiniteSets, Bags, TLC

(***************************************************************************)
(* Bounds of the model.                                                    *)
(***************************************************************************)
\* longest honest program, in instructions before the final ret
MaxInstr == 2
\* largest program_size / number_steps handed to CairoAIR::new on its own
MaxSize == 9
\* longest stream handed to the stream helpers on their own
MaxLen == 3
\* longest program handed to add_program_in_public_input_section on its own
MaxProg == 4
\* most rows of a table handed to fill_offsets_missing_values on its own
MaxRows == 2

(***************************************************************************)
(* The prime field.                                                        *)
(***************************************************************************)
FieldOrder == 19

FE == 0 .. (FieldOrder - 1)

FromU64(i) == i % FieldOrder

FAdd(a, b) == (a + b) % FieldOrder

FSub(a, b) == (a + FieldOrder - b) % FieldOrder

FMul(a, b) == (a * b) % FieldOrder

RECURSIVE FPow(_, _)
FPow(a, n) == IF n = 0 THEN 1 ELSE FMul(a, FPow(a, n - 1))

\* the inverse of a non-zero element (Fermat); the division of the source
\* fails on a zero divisor, which the callers below guard
InverseTable == [a \in FE |-> FPow(a, FieldOrder - 2)]

FInv(a) == InverseTable[a]

\* the powers of two of the source, in the field
b15 == FPow(2, 15)
b16 == FPow(2, 16)
b32 == FPow(2, 32)
b48 == FPow(2, 48)

FDiv(a, b) == FMul(a, FInv(b))

\* the canonical integer representative
representative(a) == a % FieldOrder

(***************************************************************************)
(* Constraint and column identifiers.                                      *)
(***************************************************************************)
INST == 16
DST_ADDR == 17
OP0_ADDR == 18
OP1_ADDR == 19
NEXT_AP == 20
NEXT_FP == 21
NEXT_PC_1 == 22
NEXT_PC_2 == 23
T0 == 24
T1 == 25
MUL_1 == 26
MUL_2 == 27
CALL_1 == 28
CALL_2 == 29
ASSERT_EQ == 30
MEMORY_INCREASING_0 == 31
MEMORY_INCREASING_1 == 32
MEMORY_INCREASING_2 == 33
MEMORY_INCREASING_3 == 34
MEMORY_CONSISTENCY_0 == 35
MEMORY_CONSISTENCY_1 == 36
MEMORY_CONSISTENCY_2 == 37
MEMORY_CONSISTENCY_3 == 38
PERMUTATION_ARGUMENT_0 == 39
PERMUTATION_ARGUMENT_1 == 40
PERMUTATION_ARGUMENT_2 == 41
PERMUTATION_ARGUMENT_3 == 42

F_DST_FP == 0
F_OP_0_FP == 1
F_OP_1_VAL == 2
F_OP_1_FP == 3
F_OP_1_AP == 4
F_RES_ADD == 5
F_RES_MUL == 6
F_PC_ABS == 7
F_PC_REL == 8
F_PC_JNZ == 9
F_AP_ADD == 10
F_AP_ONE == 11
F_OPC_CALL == 12
F_OPC_RET == 13
F_OPC_AEQ == 14

FRAME_RES == 16
FRAME_AP == 17
FRAME_FP == 18
FRAME_PC == 19
FRAME_DST_ADDR == 20
FRAME_OP0_ADDR == 21
FRAME_OP1_ADDR == 22
FRAME_INST == 23
FRAME_DST == 24
FRAME_OP0 == 25
FRAME_OP1 == 26
OFF_DST == 27
OFF_OP0 == 28
OFF_OP1 == 29
FRAME_T0 == 30
FRAME_T1 == 31
FRAME_MUL == 32
FRAME_SELECTOR == 33

MEMORY_ADDR_SORTED_0 == 34
MEMORY_ADDR_SORTED_1 == 35
MEMORY_ADDR_SORTED_2 == 36
MEMORY_ADDR_SORTED_3 == 37
MEMORY_VALUES_SORTED_0 == 38
MEMORY_VALUES_SORTED_1 == 39
MEMORY_VALUES_SORTED_2 == 40
MEMORY_VALUES_SORTED_3 == 41
PERMUTATION_ARGUMENT_COL_0 == 42
PERMUTATION_ARGUMENT_COL_1 == 43
PERMUTATION_ARGUMENT_COL_2 == 44
PERMUTATION_ARGUMENT_COL_3 == 45

MEM_P_TRACE_OFFSET == 17
MEM_A_TRACE_OFFSET == 19

\* columns of the main trace and of the auxiliary trace
MainCols == 34
AuxCols == 12
NumConstraints == 43

(***************************************************************************)
(* CairoAIR::new.                                                          *)
(***************************************************************************)
\* the loop with the comparison off by one: it doubles once more when
\* the sum is a power of two already
RECURSIVE power_of_two_loop_inclusive(_, _)
power_of_two_loop_inclusive(power_of_two, trace_length) ==
    IF power_of_two <= trace_length
    THEN power_of_two_loop_inclusive(power_of_two * 2, trace_length)
    ELSE power_of_two

RECURSIVE power_of_two_loop(_, _)
power_of_two_loop(power_of_two, trace_length) ==
    IF power_of_two < trace_length
    THEN power_of_two_loop(power_of_two * 2, trace_length)
    ELSE power_of_two

transition_degrees ==
    [k \in 0 .. 42 |-> IF k = 15 THEN 1 ELSE 2]

\* exemptions that spare the last row for the last constraint of each
\* auxiliary group only where the grand product wraps: 34 and 38 get 0
transition_exemptions_last_only ==
    << 1, 1, 1, 1, 1, 1, 1, 1, 1, 1, 1, 1, 1, 1, 1, 1, 1, 1, 1, 1, 1, 1, 1, 1, 1, 1, 1, 1,
       1, 1, 1, 0, 0, 0, 0, 0, 0, 0, 0, 0, 0, 0, 1 >>

transition_exemptions ==
    << 1, 1, 1, 1, 1, 1, 1, 1, 1, 1, 1, 1, 1, 1, 1, 1, 1, 1, 1, 1, 1, 1, 1, 1, 1, 1, 1, 1,
       1, 1, 1, 0, 0, 0, 1, 0, 0, 0, 1, 0, 0, 0, 1 >>

new(program_size, number_steps) ==
    LET trace_length == number_steps + (program_size \div 4) + 1
    IN  [ context |->
            [ trace_length |-> power_of_two_loop(1, trace_length),
              trace_columns |-> 34 + 12,
              transition_degrees |-> transition_degrees,
              transition_exemptions |-> transition_exemptions,
              transition_offsets |-> << 0, 1 >>,
              num_transition_constraints |-> 43 ],
          number_steps |-> number_steps ]

(***************************************************************************)
(* The stream helpers of the auxiliary trace.                              *)
(***************************************************************************)
\* the subtraction addresses.len() - program.len() underflows, or the
\* splice starts past the end of the stream
add_program_panics(addresses, values, program) ==
    \/ Len(program) > Len(addresses)
    \/ Len(addresses) - Len(program) > Len(values)

\* the program laid out from address 0 instead of address 1
add_program_from_address_zero(addresses, values, program) ==
    LET public_input_section == Len(addresses) - Len(program)
        continous_memory == [i \in 1 .. Len(program) |-> FromU64(i - 1)]
        a_aux == SubSeq(addresses, 1, public_input_section) \o continous_memory
        v_aux == SubSeq(values, 1, public_input_section) \o program
    IN  << a_aux, v_aux >>

add_program_in_public_input_section(addresses, values, program) ==
    LET public_input_section == Len(addresses) - Len(program)
        continous_memory == [i \in 1 .. Len(program) |-> FromU64(i)]
        a_aux == SubSeq(addresses, 1, public_input_section) \o continous_memory
        v_aux == SubSeq(values, 1, public_input_section) \o program
    IN  << a_aux, v_aux >>

\* adresses.into_iter().zip(values): as long as the shorter of the two
zip(adresses, values) ==
    LET n == IF Len(adresses) < Len(values) THEN Len(adresses) ELSE Len(values)
    IN  [i \in 1 .. n |-> << adresses[i], values[i] >>]

\* the comparison handed to sort_by: by the representative of the address
address_less(x, y) == representative(x[1]) < representative(y[1])

\* an insertion that goes in front of the elements that compare equal: the
\* sort it gives is not stable
RECURSIVE insert_before_equals(_, _)
insert_before_equals(t, sorted) ==
    IF sorted = << >> THEN << t >>
    ELSE IF ~address_less(Head(sorted), t) THEN << t >> \o sorted
    ELSE << Head(sorted) >> \o insert_before_equals(t, Tail(sorted))

\* sort_by is a stable sort: an element goes behind the elements that do
\* not compare greater
RECURSIVE insert_sorted(_, _)
insert_sorted(t, sorted) ==
    IF sorted = << >> THEN << t >>
    ELSE IF address_less(t, Head(sorted)) THEN << t >> \o sorted
    ELSE << Head(sorted) >> \o insert_sorted(t, Tail(sorted))

RECURSIVE sort_by(_)
sort_by(tuples) ==
    IF tuples = << >> THEN << >>
    ELSE insert_sorted(tuples[Len(tuples)],
                       sort_by(SubSeq(tuples, 1, Len(tuples) - 1)))

sort_columns_by_memory_address(adresses, values) ==
    LET tuples == sort_by(zip(adresses, values))
    IN  << [i \in 1 .. Len(tuples) |-> tuples[i][1]],
           [i \in 1 .. Len(tuples) |-> tuples[i][2]] >>

\* the quotient upside down
f_inverted(ch, a, v, ap, vp) ==
    FDiv(FSub(ch.z, FAdd(ap, FMul(ch.alpha, vp))),
         FSub(ch.z, FAdd(a, FMul(ch.alpha, v))))

\* the closure f of generate_permutation_argument_column
f(ch, a, v, ap, vp) ==
    FDiv(FSub(ch.z, FAdd(a, FMul(ch.alpha, v))),
         FSub(ch.z, FAdd(ap, FMul(ch.alpha, vp))))

\* an index out of range, or a division by zero
generate_permutation_argument_column_panics(addresses_original, values_original, addresses_sorted, values_sorted, ch) ==
    \/ Len(addresses_original) = 0
    \/ Len(values_original) = 0
    \/ Len(addresses_sorted) = 0
    \/ Len(values_sorted) = 0
    \/ Len(addresses_original) < Len(addresses_sorted)
    \/ Len(values_original) < Len(addresses_sorted)
    \/ Len(values_sorted) < Len(addresses_sorted)
    \/ \E i \in 1 .. Len(addresses_sorted) :
          FSub(ch.z, FAdd(addresses_sorted[i], FMul(ch.alpha, values_sorted[i]))) = 0

RECURSIVE permutation_col_loop(_, _, _, _, _, _, _)
permutation_col_loop(permutation_col, i, addresses_original, values_original, addresses_sorted, values_sorted, ch) ==
    IF i >= Len(addresses_sorted) THEN permutation_col
    ELSE LET last == permutation_col[Len(permutation_col)]
         IN  permutation_col_loop(
                 Append(permutation_col,
                        FMul(last, f(ch, addresses_original[i + 1], values_original[i + 1],
                                     addresses_sorted[i + 1], values_sorted[i + 1]))),
                 i + 1, addresses_original, values_original,
                 addresses_sorted, values_sorted, ch)

generate_permutation_argument_column(addresses_original, values_original, addresses_sorted, values_sorted, ch) ==
    permutation_col_loop(
        << f(ch, addresses_original[1], values_original[1],
             addresses_sorted[1], values_sorted[1]) >>,
        1, addresses_original, values_original, addresses_sorted, values_sorted, ch)

(***************************************************************************)
(* Trace tables.                                                           *)
(***************************************************************************)
ZeroRow(n_cols) == [c \in 0 .. (n_cols - 1) |-> 0]

\* TraceTable::get_cols(..).table: the chosen columns, flattened row by row
RECURSIVE flatten(_)
flatten(rows) ==
    IF rows = << >> THEN << >> ELSE Head(rows) \o flatten(Tail(rows))

get_cols(trace, columns_indices) ==
    flatten([r \in 1 .. Len(trace) |->
                [j \in 1 .. Len(columns_indices) |-> trace[r][columns_indices[j]]]])

\* padding that goes in front of the rows instead of behind them
pad_with_zeros_in_front(trace, number_rows) ==
    [r \in 1 .. number_rows |-> ZeroRow(MainCols)] \o trace

pad_with_zeros(trace, number_rows) ==
    trace \o [r \in 1 .. number_rows |-> ZeroRow(MainCols)]

\* sorted_offset_representatives.sort(): the representatives in
\* non-decreasing order
RECURSIVE insert_u16(_, _)
insert_u16(x, sorted) ==
    IF sorted = << >> THEN << x >>
    ELSE IF x < Head(sorted) THEN << x >> \o sorted
    ELSE << Head(sorted) >> \o insert_u16(x, Tail(sorted))

RECURSIVE sort_u16(_)
sort_u16(xs) ==
    IF xs = << >> THEN << >> ELSE insert_u16(Head(xs), sort_u16(Tail(xs)))

\* a range that takes in its upper end as well
missing_range_inclusive(lo, hi) ==
    [j \in 1 .. (hi - lo) |-> FromU64(lo + j)]

\* ((window[0] + 1)..window[1]) as field elements
missing_range(lo, hi) ==
    [j \in 1 .. (hi - lo - 1) |-> FromU64(lo + j)]

\* the loop over windows(2): << new_column, missing_ranges >>
RECURSIVE windows_loop(_, _, _, _)
windows_loop(sorted, i, new_column, missing_ranges) ==
    IF i >= Len(sorted) THEN << new_column, missing_ranges >>
    ELSE IF sorted[i + 1] - sorted[i] = 0
         THEN windows_loop(sorted, i + 1, Append(new_column, FromU64(sorted[i + 1])),
                           missing_ranges)
         ELSE windows_loop(sorted, i + 1,
                           Append(new_column \o missing_range(sorted[i], sorted[i + 1]),
                                  FromU64(sorted[i + 1])),
                           Append(missing_ranges, missing_range(sorted[i], sorted[i + 1])))

Zeros(n) == [i \in 1 .. n |-> 0]

\* sorted_offset_representatives[0] of no entry at all
fill_offsets_missing_values_panics(trace, columns_indices) ==
    Len(get_cols(trace, columns_indices)) = 0

fill_offsets_missing_values(trace, columns_indices) ==
    LET table == get_cols(trace, columns_indices)
        offset_columns == [i \in 1 .. Len(table) |-> FAdd(table[i], b15)]
        sorted_offset_representatives ==
            sort_u16([i \in 1 .. Len(offset_columns) |-> representative(offset_columns[i])])
        walked == windows_loop(sorted_offset_representatives, 1,
                               << FromU64(sorted_offset_representatives[1]) >>, << >>)
        new_column == walked[1]
        multiple_of_three_padding ==
            ((Len(new_column) + 2) \div 3) * 3 - Len(new_column)
    IN  << offset_columns \o flatten(walked[2]) \o Zeros(multiple_of_three_padding),
           Zeros(multiple_of_three_padding) \o new_column >>

(***************************************************************************)
(* The execution trace an honest run hands to build_main_trace.  The VM    *)
(* and build_cairo_execution_trace are outside the files modelled here;    *)
(* the rows follow the column layout and the Cairo step semantics: a       *)
(* straight-line program of assert-equal instructions closed by ret, run   *)
(* outside proof mode (the stack starts with the return fp and pc).        *)
(***************************************************************************)
InstrKinds == {"imm", "mul"}

\* the immediate of an "imm" instruction
ImmValue == 7

\* [ap] = imm; ap++   |   [ap] = [ap-1] + [ap-1]; ap++   |
\* [ap] = [ap-1] * [ap-1]; ap++   |   ret   (runs are made of the kinds of
\* InstrKinds and end with ret)
Instr(kind) ==
    CASE kind = "imm" ->
           [flags |-> {F_OP_0_FP, F_OP_1_VAL, F_AP_ONE, F_OPC_AEQ},
            off_dst |-> 0, off_op0 |-> -1, off_op1 |-> 1, size |-> 2]
      [] kind = "add" ->
           [flags |-> {F_OP_1_AP, F_RES_ADD, F_AP_ONE, F_OPC_AEQ},
            off_dst |-> 0, off_op0 |-> -1, off_op1 |-> -1, size |-> 1]
      [] kind = "mul" ->
           [flags |-> {F_OP_1_AP, F_RES_MUL, F_AP_ONE, F_OPC_AEQ},
            off_dst |-> 0, off_op0 |-> -1, off_op1 |-> -1, size |-> 1]
      [] kind = "ret" ->
           [flags |-> {F_DST_FP, F_OP_0_FP, F_OP_1_FP, F_PC_ABS, F_OPC_RET},
            off_dst |-> -2, off_op0 |-> -1, off_op1 |-> -1, size |-> 1]

Flag(ins, i) == IF i \in ins.flags THEN 1 ELSE 0

\* an offset as the trace holds it: biased by 2^15
Biased(off) == FromU64(off + 32768)

\* an offset added to a register
Offset(reg, off) == FSub(FAdd(reg, Biased(off)), b15)

RECURSIVE FlagSum(_, _)
FlagSum(ins, i) ==
    IF i > 14 THEN 0
    ELSE FAdd(FMul(Flag(ins, i), FPow(2, i)), FlagSum(ins, i + 1))

\* the instruction word: off_dst + 2^16 off_op0 + 2^32 off_op1 + 2^48 flags
InstrWord(ins) ==
    FAdd(FAdd(Biased(ins.off_dst), FMul(b16, Biased(ins.off_op0))),
         FAdd(FMul(b32, Biased(ins.off_op1)), FMul(b48, FlagSum(ins, 0))))

\* the kinds of a run: the instructions, then ret
Kinds(instrs) == Append(instrs, "ret")

RECURSIVE ProgramWords(_)
ProgramWords(kinds) ==
    IF kinds = << >> THEN << >>
    ELSE LET ins == Instr(Head(kinds))
         IN  (IF ins.size = 2 THEN << InstrWord(ins), ImmValue >> ELSE << InstrWord(ins) >>)
             \o ProgramWords(Tail(kinds))

\* registers and operands of one step, read from a memory
StepOf(regs, ins, mem) ==
    LET dst_addr == Offset(IF F_DST_FP \in ins.flags THEN regs.fp ELSE regs.ap, ins.off_dst)
        op0_addr == Offset(IF F_OP_0_FP \in ins.flags THEN regs.fp ELSE regs.ap, ins.off_op0)
        op0 == mem[op0_addr]
        op1_base == IF F_OP_1_VAL \in ins.flags THEN regs.pc
                    ELSE IF F_OP_1_AP \in ins.flags THEN regs.ap
                    ELSE IF F_OP_1_FP \in ins.flags THEN regs.fp
                    ELSE op0
        op1_addr == Offset(op1_base, ins.off_op1)
        op1 == mem[op1_addr]
        res == IF F_RES_ADD \in ins.flags THEN FAdd(op0, op1)
               ELSE IF F_RES_MUL \in ins.flags THEN FMul(op0, op1)
               ELSE op1
    IN  [dst_addr |-> dst_addr, op0_addr |-> op0_addr, op1_addr |-> op1_addr,
         op0 |-> op0, op1 |-> op1, res |-> res]

\* the registers after a step
NextRegs(regs, ins, mem) ==
    LET st == StepOf(regs, ins, mem)
    IN  [pc |-> IF F_PC_ABS \in ins.flags THEN st.res ELSE FAdd(regs.pc, FromU64(ins.size)),
         ap |-> FAdd(regs.ap, Flag(ins, F_AP_ONE)),
         fp |-> IF F_OPC_RET \in ins.flags THEN mem[st.dst_addr] ELSE regs.fp]

\* the memory after the steps from `kinds` on: assert-equal writes its cell
RECURSIVE RunMemory(_, _, _)
RunMemory(regs, kinds, mem) ==
    IF kinds = << >> THEN mem
    ELSE LET ins == Instr(Head(kinds))
             st == StepOf(regs, ins, mem)
             written == IF F_OPC_AEQ \in ins.flags
                        THEN [mem EXCEPT ![st.dst_addr] = st.res] ELSE mem
         IN  RunMemory(NextRegs(regs, ins, written), Tail(kinds), written)

InitialRegs(instrs) ==
    LET P == Len(ProgramWords(Kinds(instrs)))
    IN  [pc |-> FromU64(1), ap |-> FromU64(P + 3), fp |-> FromU64(P + 3)]

\* program at 1..P, then the return fp and the return pc, both relocated to
\* the end of the execution segment
InitialMemory(instrs) ==
    LET words == ProgramWords(Kinds(instrs))
        P == Len(words)
        stack_end == FromU64(P + 3 + Len(instrs))
    IN  [a \in FE |-> IF a \in 1 .. P THEN words[a]
                      ELSE IF a \in {P + 1, P + 2} THEN stack_end ELSE 0]

FinalMemory(instrs) ==
    RunMemory(InitialRegs(instrs), Kinds(instrs), InitialMemory(instrs))

\* one row of the 34 columns
ExecutionRow(regs, ins, mem) ==
    LET st == StepOf(regs, ins, mem)
        dst == mem[st.dst_addr]
        t0 == FMul(Flag(ins, F_PC_JNZ), dst)
    IN  [c \in 0 .. (MainCols - 1) |->
           CASE c \in 0 .. 14 -> Flag(ins, c)
             [] c = 15 -> 0
             [] c = FRAME_RES -> st.res
             [] c = FRAME_AP -> regs.ap
             [] c = FRAME_FP -> regs.fp
             [] c = FRAME_PC -> regs.pc
             [] c = FRAME_DST_ADDR -> st.dst_addr
             [] c = FRAME_OP0_ADDR -> st.op0_addr
             [] c = FRAME_OP1_ADDR -> st.op1_addr
             [] c = FRAME_INST -> mem[regs.pc]
             [] c = FRAME_DST -> dst
             [] c = FRAME_OP0 -> st.op0
             [] c = FRAME_OP1 -> st.op1
             [] c = OFF_DST -> Biased(ins.off_dst)
             [] c = OFF_OP0 -> Biased(ins.off_op0)
             [] c = OFF_OP1 -> Biased(ins.off_op1)
             [] c = FRAME_T0 -> t0
             [] c = FRAME_T1 -> FMul(t0, st.res)
             [] c = FRAME_MUL -> FMul(st.op0, st.op1)
             [] c = FRAME_SELECTOR -> 1]

RECURSIVE ExecutionRows(_, _, _)
ExecutionRows(regs, kinds, mem) ==
    IF kinds = << >> THEN << >>
    ELSE LET ins == Instr(Head(kinds))
         IN  << ExecutionRow(regs, ins, mem) >>
             \o ExecutionRows(NextRegs(regs, ins, mem), Tail(kinds), mem)

\* a raw trace: the instructions of the program, the steps recorded (all
\* of the run, or none: an empty trace file) and, for a trace that is not
\* honest, one memory cell of one row overwritten
NoTamper == [row |-> 0, col |-> 0, val |-> 0]

steps(raw) == raw.n_steps

\* the non-padded 34-column trace of a raw trace, one row per step
build_cairo_execution_trace(raw) ==
    LET rows == SubSeq(ExecutionRows(InitialRegs(raw.instrs), Kinds(raw.instrs),
                                     FinalMemory(raw.instrs)), 1, steps(raw))
    IN  IF raw.tamper = NoTamper THEN rows
        ELSE [rows EXCEPT ![raw.tamper.row][raw.tamper.col] = raw.tamper.val]

(***************************************************************************)
(* The transition constraints.  A frame is the pair of a row and the row   *)
(* after it, each of 46 columns; the constraints are a vector indexed      *)
(* 0..42 that the functions below fill in turn.                            *)
(***************************************************************************)
get_row(frame, i) == frame[i + 1]

frame_inst_size(frame_row) == FAdd(frame_row[F_OP_1_VAL], 1)

\* the fold without rev(): flag 14 gets the weight 1 and flag 0 the
\* weight 2^14
RECURSIVE f0_squiggle_fold_forward(_, _)
f0_squiggle_fold_forward(curr, i) ==
    IF i > 14 THEN 0
    ELSE FAdd(curr[14 - i], FMul(2, f0_squiggle_fold_forward(curr, i + 1)))

\* curr[0..15].iter().rev().fold(0, |acc, flag| flag + two * acc)
RECURSIVE f0_squiggle_fold(_, _)
f0_squiggle_fold(curr, i) ==
    IF i > 14 THEN 0
    ELSE FAdd(curr[i], FMul(2, f0_squiggle_fold(curr, i + 1)))

compute_instr_constraints(constraints, frame) ==
    LET curr == get_row(frame, 0)
        f0_squiggle == f0_squiggle_fold(curr, 0)
    IN  [k \in 0 .. 42 |->
           IF k \in 0 .. 14 THEN FMul(curr[k], FSub(curr[k], 1))
           ELSE IF k = 15 THEN curr[k]
           ELSE IF k = INST
           THEN FSub(FAdd(FAdd(curr[OFF_DST], FMul(b16, curr[OFF_OP0])),
                          FAdd(FMul(b32, curr[OFF_OP1]), FMul(b48, f0_squiggle))),
                     curr[FRAME_INST])
           ELSE constraints[k]]

compute_operand_constraints(constraints, frame) ==
    LET curr == get_row(frame, 0)
        ap == curr[FRAME_AP]
        fp == curr[FRAME_FP]
        pc == curr[FRAME_PC]
    IN  [constraints EXCEPT
           ![DST_ADDR] =
               FSub(FAdd(FAdd(FMul(curr[F_DST_FP], fp), FMul(FSub(1, curr[F_DST_FP]), ap)),
                         FSub(curr[OFF_DST], b15)),
                    curr[FRAME_DST_ADDR]),
           ![OP0_ADDR] =
               FSub(FAdd(FAdd(FMul(curr[F_OP_0_FP], fp), FMul(FSub(1, curr[F_OP_0_FP]), ap)),
                         FSub(curr[OFF_OP0], b15)),
                    curr[FRAME_OP0_ADDR]),
           ![OP1_ADDR] =
               FSub(FAdd(FAdd(FAdd(FMul(curr[F_OP_1_VAL], pc), FMul(curr[F_OP_1_AP], ap)),
                              FAdd(FMul(curr[F_OP_1_FP], fp),
                                   FMul(FSub(FSub(FSub(1, curr[F_OP_1_VAL]), curr[F_OP_1_AP]),
                                             curr[F_OP_1_FP]),
                                        curr[FRAME_OP0]))),
                         FSub(curr[OFF_OP1], b15)),
                    curr[FRAME_OP1_ADDR])]

compute_register_constraints(constraints, frame) ==
    LET curr == get_row(frame, 0)
        next == get_row(frame, 1)
    IN  [constraints EXCEPT
           ![NEXT_AP] =
               FSub(FAdd(FAdd(curr[FRAME_AP], FMul(curr[F_AP_ADD], curr[FRAME_RES])),
                         FAdd(curr[F_AP_ONE], FMul(curr[F_OPC_CALL], 2))),
                    next[FRAME_AP]),
           ![NEXT_FP] =
               FSub(FAdd(FAdd(FMul(curr[F_OPC_RET], curr[FRAME_DST]),
                              FMul(curr[F_OPC_CALL], FAdd(curr[FRAME_AP], 2))),
                         FMul(FSub(FSub(1, curr[F_OPC_RET]), curr[F_OPC_CALL]), curr[FRAME_FP])),
                    next[FRAME_FP]),
           ![NEXT_PC_1] =
               FMul(FSub(curr[FRAME_T1], curr[F_PC_JNZ]),
                    FSub(next[FRAME_PC], FAdd(curr[FRAME_PC], frame_inst_size(curr)))),
           ![NEXT_PC_2] =
               FSub(FAdd(FMul(curr[FRAME_T0],
                              FSub(next[FRAME_PC], FAdd(curr[FRAME_PC], curr[FRAME_OP1]))),
                         FMul(FSub(1, curr[F_PC_JNZ]), next[FRAME_PC])),
                    FAdd(FAdd(FMul(FSub(FSub(FSub(1, curr[F_PC_ABS]), curr[F_PC_REL]),
                                        curr[F_PC_JNZ]),
                                   FAdd(curr[FRAME_PC], frame_inst_size(curr))),
                              FMul(curr[F_PC_ABS], curr[FRAME_RES])),
                         FMul(curr[F_PC_REL], FAdd(curr[FRAME_PC], curr[FRAME_RES])))),
           ![T0] = FSub(FMul(curr[F_PC_JNZ], curr[FRAME_DST]), curr[FRAME_T0]),
           ![T1] = FSub(FMul(curr[FRAME_T0], curr[FRAME_RES]), curr[FRAME_T1])]

compute_opcode_constraints(constraints, frame) ==
    LET curr == get_row(frame, 0)
    IN  [constraints EXCEPT
           ![MUL_1] = FSub(curr[FRAME_MUL], FMul(curr[FRAME_OP0], curr[FRAME_OP1])),
           ![MUL_2] =
               FSub(FAdd(FAdd(FMul(curr[F_RES_ADD], FAdd(curr[FRAME_OP0], curr[FRAME_OP1])),
                              FMul(curr[F_RES_MUL], curr[FRAME_MUL])),
                         FMul(FSub(FSub(FSub(1, curr[F_RES_ADD]), curr[F_RES_MUL]),
                                   curr[F_PC_JNZ]),
                              curr[FRAME_OP1])),
                    FMul(FSub(1, curr[F_PC_JNZ]), curr[FRAME_RES])),
           ![CALL_1] = FMul(curr[F_OPC_CALL], FSub(curr[FRAME_DST], curr[FRAME_FP])),
           ![CALL_2] =
               FMul(curr[F_OPC_CALL],
                    FSub(curr[FRAME_OP0], FAdd(curr[FRAME_PC], frame_inst_size(curr)))),
           ![ASSERT_EQ] = FMul(curr[F_OPC_AEQ], FSub(curr[FRAME_DST], curr[FRAME_RES]))]

\* constraints.iter_mut().take(ASSERT_EQ + 1).skip(INST)
selected(k) == k < ASSERT_EQ + 1 /\ k >= INST

\* a range that stops one short: ASSERT_EQ is left out
enforce_selector_without_assert_eq(constraints, frame) ==
    LET curr == get_row(frame, 0)
    IN  [k \in 0 .. 42 |->
           IF k < ASSERT_EQ /\ k >= INST THEN FMul(constraints[k], curr[FRAME_SELECTOR])
           ELSE constraints[k]]

enforce_selector(constraints, frame) ==
    LET curr == get_row(frame, 0)
    IN  [k \in 0 .. 42 |->
           IF selected(k) THEN FMul(constraints[k], curr[FRAME_SELECTOR])
           ELSE constraints[k]]

memory_is_increasing(constraints, frame) ==
    LET curr == get_row(frame, 0)
        next == get_row(frame, 1)
    IN  [constraints EXCEPT
           ![MEMORY_INCREASING_0] =
               FMul(FSub(curr[MEMORY_ADDR_SORTED_0], curr[MEMORY_ADDR_SORTED_1]),
                    FSub(FSub(curr[MEMORY_ADDR_SORTED_1], curr[MEMORY_ADDR_SORTED_0]), 1)),
           ![MEMORY_INCREASING_1] =
               FMul(FSub(curr[MEMORY_ADDR_SORTED_1], curr[MEMORY_ADDR_SORTED_2]),
                    FSub(FSub(curr[MEMORY_ADDR_SORTED_2], curr[MEMORY_ADDR_SORTED_1]), 1)),
           ![MEMORY_INCREASING_2] =
               FMul(FSub(curr[MEMORY_ADDR_SORTED_2], curr[MEMORY_ADDR_SORTED_3]),
                    FSub(FSub(curr[MEMORY_ADDR_SORTED_3], curr[MEMORY_ADDR_SORTED_2]), 1)),
           ![MEMORY_INCREASING_3] =
               FMul(FSub(curr[MEMORY_ADDR_SORTED_3], next[MEMORY_ADDR_SORTED_0]),
                    FSub(FSub(next[MEMORY_ADDR_SORTED_0], curr[MEMORY_ADDR_SORTED_3]), 1)),
           ![MEMORY_CONSISTENCY_0] =
               FMul(FSub(curr[MEMORY_VALUES_SORTED_0], curr[MEMORY_VALUES_SORTED_1]),
                    FSub(FSub(curr[MEMORY_ADDR_SORTED_1], curr[MEMORY_ADDR_SORTED_0]), 1)),
           ![MEMORY_CONSISTENCY_1] =
               FMul(FSub(curr[MEMORY_VALUES_SORTED_1], curr[MEMORY_VALUES_SORTED_2]),
                    FSub(FSub(curr[MEMORY_ADDR_SORTED_2], curr[MEMORY_ADDR_SORTED_1]), 1)),
           ![MEMORY_CONSISTENCY_2] =
               FMul(FSub(curr[MEMORY_VALUES_SORTED_2], curr[MEMORY_VALUES_SORTED_3]),
                    FSub(FSub(curr[MEMORY_ADDR_SORTED_3], curr[MEMORY_ADDR_SORTED_2]), 1)),
           ![MEMORY_CONSISTENCY_3] =
               FMul(FSub(curr[MEMORY_VALUES_SORTED_3], next[MEMORY_VALUES_SORTED_0]),
                    FSub(FSub(next[MEMORY_ADDR_SORTED_0], curr[MEMORY_ADDR_SORTED_3]), 1))]

\* (z - (ap + alpha * vp)) * p - (z - (a + alpha * v)) * p_prev
permutation_step(ch, ap, vp, p, a, v, p_prev) ==
    FSub(FMul(FSub(ch.z, FAdd(ap, FMul(ch.alpha, vp))), p),
         FMul(FSub(ch.z, FAdd(a, FMul(ch.alpha, v))), p_prev))

permutation_argument(constraints, frame, ch) ==
    LET curr == get_row(frame, 0)
        next == get_row(frame, 1)
    IN  [constraints EXCEPT
           ![PERMUTATION_ARGUMENT_0] =
               permutation_step(ch, curr[MEMORY_ADDR_SORTED_1], curr[MEMORY_VALUES_SORTED_1],
                                curr[PERMUTATION_ARGUMENT_COL_1],
                                curr[FRAME_DST_ADDR], curr[FRAME_DST],
                                curr[PERMUTATION_ARGUMENT_COL_0]),
           ![PERMUTATION_ARGUMENT_1] =
               permutation_step(ch, curr[MEMORY_ADDR_SORTED_2], curr[MEMORY_VALUES_SORTED_2],
                                curr[PERMUTATION_ARGUMENT_COL_2],
                                curr[FRAME_OP0_ADDR], curr[FRAME_OP0],
                                curr[PERMUTATION_ARGUMENT_COL_1]),
           ![PERMUTATION_ARGUMENT_2] =
               permutation_step(ch, curr[MEMORY_ADDR_SORTED_3], curr[MEMORY_VALUES_SORTED_3],
                                curr[PERMUTATION_ARGUMENT_COL_3],
                                curr[FRAME_OP1_ADDR], curr[FRAME_OP1],
                                curr[PERMUTATION_ARGUMENT_COL_2]),
           ![PERMUTATION_ARGUMENT_3] =
               permutation_step(ch, next[MEMORY_ADDR_SORTED_0], next[MEMORY_VALUES_SORTED_0],
                                next[PERMUTATION_ARGUMENT_COL_0],
                                next[FRAME_PC], next[FRAME_INST],
                                curr[PERMUTATION_ARGUMENT_COL_3])]

compute_transition(frame, ch) ==
    LET c0 == [k \in 0 .. 42 |-> 0]
        c1 == compute_instr_constraints(c0, frame)
        c2 == compute_operand_constraints(c1, frame)
        c3 == compute_register_constraints(c2, frame)
        c4 == compute_opcode_constraints(c3, frame)
        c5 == enforce_selector(c4, frame)
        c6 == memory_is_increasing(c5, frame)
    IN  permutation_argument(c6, frame, ch)

(***************************************************************************)
(* The AIR's methods.                                                      *)
(***************************************************************************)
\* padding of (program.len() >> 3) + 1 rows: the shift one too far
build_main_trace_shift_three(raw_trace, public_input) ==
    LET main_trace == build_cairo_execution_trace(raw_trace)
    IN  pad_with_zeros(main_trace, (Len(public_input.program) \div 8) + 1)

\* padding of program.len() >> 2 rows, without the one more
build_main_trace_one_row_short(raw_trace, public_input) ==
    LET main_trace == build_cairo_execution_trace(raw_trace)
    IN  pad_with_zeros(main_trace, Len(public_input.program) \div 4)

build_main_trace(raw_trace, public_input) ==
    LET main_trace == build_cairo_execution_trace(raw_trace)
    IN  pad_with_zeros(main_trace, (Len(public_input.program) \div 4) + 1)

\* the address columns with dst and op0 the other way round
addresses_original_dst_op0_swapped(main_trace) ==
    get_cols(main_trace, << FRAME_PC, FRAME_OP0_ADDR, FRAME_DST_ADDR, FRAME_OP1_ADDR >>)

addresses_original_of(main_trace) ==
    get_cols(main_trace, << FRAME_PC, FRAME_DST_ADDR, FRAME_OP0_ADDR, FRAME_OP1_ADDR >>)

values_original_of(main_trace) ==
    get_cols(main_trace, << FRAME_INST, FRAME_DST, FRAME_OP0, FRAME_OP1 >>)

\* the sorted streams of build_auxiliary_trace: << addresses, values >>
sorted_streams(main_trace, public_input) ==
    LET spliced == add_program_in_public_input_section(
                       addresses_original_of(main_trace),
                       values_original_of(main_trace), public_input.program)
    IN  sort_columns_by_memory_address(spliced[1], spliced[2])

permutation_panics(addresses_original, values_original, sorted, ch) ==
    generate_permutation_argument_column_panics(
        addresses_original, values_original, sorted[1], sorted[2], ch)

build_auxiliary_trace_panics(main_trace, ch, public_input) ==
    \/ add_program_panics(addresses_original_of(main_trace),
                          values_original_of(main_trace), public_input.program)
    \/ permutation_panics(addresses_original_of(main_trace), values_original_of(main_trace),
                          sorted_streams(main_trace, public_input), ch)

\* the three long streams, converted to the wide format: row r holds the
\* entries 4r..4r+3 of each
aux_table(addresses, values, permutation_col) ==
    [r \in 1 .. (Len(addresses) \div 4) |->
       [c \in 0 .. (AuxCols - 1) |->
          LET i == 4 * (r - 1)
          IN  IF c < 4 THEN addresses[i + c + 1]
              ELSE IF c < 8 THEN values[i + (c - 4) + 1]
              ELSE permutation_col[i + (c - 8) + 1]]]

permutation_and_table(addresses_original, values_original, sorted, ch) ==
    aux_table(sorted[1], sorted[2],
              generate_permutation_argument_column(
                  addresses_original, values_original, sorted[1], sorted[2], ch))

build_auxiliary_trace(main_trace, ch, public_input) ==
    permutation_and_table(addresses_original_of(main_trace), values_original_of(main_trace),
                          sorted_streams(main_trace, public_input), ch)

\* the two draws taken the other way round
build_rap_challenges_z_first(tr) ==
    [alpha |-> tr.draws[tr.pos + 2], z |-> tr.draws[tr.pos + 1]]

\* the two draws of build_rap_challenges, alpha first
build_rap_challenges(tr) ==
    [alpha |-> tr.draws[tr.pos + 1], z |-> tr.draws[tr.pos + 2]]

RECURSIVE cumulative_product_loop(_, _, _)
cumulative_product_loop(ch, program, i) ==
    IF i = 0 THEN 1
    ELSE FMul(cumulative_product_loop(ch, program, i - 1),
              FSub(ch.z, FAdd(FromU64((i - 1) + 1), FMul(ch.alpha, program[i]))))

BoundaryConstraint(col, step, value) == [col |-> col, step |-> step, value |-> value]

\* number_steps - 1 underflows for no step: a build with overflow checks
\* stops there, a build without them goes on with usize::MAX (written -1);
\* the division by a zero product fails in every build
boundary_constraints_panics(a, ch, public_input, overflow_checks) ==
    \/ a.number_steps = 0 /\ overflow_checks
    \/ cumulative_product_loop(ch, public_input.program, Len(public_input.program)) = 0

\* the final registers pinned one row late, at row number_steps
boundary_constraints_one_row_late(a, ch, public_input) ==
    LET last_step == a.number_steps
        initial_pc == BoundaryConstraint(MEM_A_TRACE_OFFSET, 0, public_input.pc_init)
        initial_ap == BoundaryConstraint(MEM_P_TRACE_OFFSET, 0, public_input.ap_init)
        final_pc == BoundaryConstraint(MEM_A_TRACE_OFFSET, last_step, public_input.pc_final)
        final_ap == BoundaryConstraint(MEM_P_TRACE_OFFSET, last_step, public_input.ap_final)
        final_index == a.context.trace_length - 1
        cumulative_product ==
            cumulative_product_loop(ch, public_input.program, Len(public_input.program))
        permutation_final ==
            FDiv(FPow(ch.z, Len(public_input.program)), cumulative_product)
        permutation_final_constraint ==
            BoundaryConstraint(PERMUTATION_ARGUMENT_COL_3, final_index, permutation_final)
    IN  << initial_pc, initial_ap, final_pc, final_ap, permutation_final_constraint >>

boundary_constraints(a, ch, public_input) ==
    LET last_step == IF a.number_steps = 0 THEN -1 ELSE a.number_steps - 1
        initial_pc == BoundaryConstraint(MEM_A_TRACE_OFFSET, 0, public_input.pc_init)
        initial_ap == BoundaryConstraint(MEM_P_TRACE_OFFSET, 0, public_input.ap_init)
        final_pc == BoundaryConstraint(MEM_A_TRACE_OFFSET, last_step, public_input.pc_final)
        final_ap == BoundaryConstraint(MEM_P_TRACE_OFFSET, last_step, public_input.ap_final)
        final_index == a.context.trace_length - 1
        cumulative_product ==
            cumulative_product_loop(ch, public_input.program, Len(public_input.program))
        permutation_final ==
            FDiv(FPow(ch.z, Len(public_input.program)), cumulative_product)
        permutation_final_constraint ==
            BoundaryConstraint(PERMUTATION_ARGUMENT_COL_3, final_index, permutation_final)
    IN  << initial_pc, initial_ap, final_pc, final_ap, permutation_final_constraint >>

\* row r (0-based) of the main trace with the auxiliary columns appended
FullRow(main, aux, r) ==
    [c \in 0 .. (MainCols + AuxCols - 1) |->
        IF c < MainCols THEN main[r + 1][c] ELSE aux[r + 1][c - MainCols]]

\* the frame at row r: the row and the one after it, cyclically
FrameAt(main, aux, r) ==
    << FullRow(main, aux, r), FullRow(main, aux, (r + 1) % Len(main)) >>

(***************************************************************************)
(* The state: a proving run (the AIR built for a raw trace, its main       *)
(* trace, the challenges, the auxiliary trace, constraint evaluations and  *)
(* boundary constraints), and the record of a single call of one of the    *)
(* functions on inputs of its own.                                         *)
(***************************************************************************)
VARIABLES pc, raw_trace, public_input, transcript, air, main_trace,
          rap_challenges, aux_trace, evaluations, boundary, call

vars == << pc, raw_trace, public_input, transcript, air, main_trace,
           rap_challenges, aux_trace, evaluations, boundary, call >>

call_frame == << raw_trace, public_input, transcript, air, main_trace,
                 rap_challenges, aux_trace, evaluations, boundary >>

MEMORY_COLUMNS ==
    << FRAME_PC, FRAME_DST_ADDR, FRAME_OP0_ADDR, FRAME_OP1_ADDR,
       FRAME_INST, FRAME_DST, FRAME_OP0, FRAME_OP1 >>

\* values a tampered cell takes, and values the transcript yields
TamperValues == {3}
ChallengeValues == {1, 2, 12}

SeqsUpTo(S, n) == UNION {[1 .. m -> S] : m \in 0 .. n}

Tampers(n_steps) ==
    {NoTamper} \cup
    {[row |-> r, col |-> MEMORY_COLUMNS[j], val |-> v] :
        r \in 1 .. n_steps, j \in 1 .. Len(MEMORY_COLUMNS), v \in TamperValues}

RawTraces ==
    UNION {{[instrs |-> i, n_steps |-> n, tamper |-> t] : t \in Tampers(n)} :
              << i, n >> \in {<< i, n >> \in SeqsUpTo(InstrKinds, MaxInstr) \X (0 .. MaxInstr + 1) :
                                  n \in {0, Len(i) + 1}}}

\* the public input the caller derives from the raw trace: the registers of
\* the first and of the last recorded step, and the program
PublicInputOf(raw) ==
    LET words == ProgramWords(Kinds(raw.instrs))
        first == InitialRegs(raw.instrs)
        n == IF steps(raw) = 0 THEN 0 ELSE steps(raw) - 1
    IN  [pc_init |-> first.pc, ap_init |-> first.ap, fp_init |-> first.fp,
         pc_final |-> FromU64(Len(words)), ap_final |-> FAdd(first.ap, FromU64(n)),
         program |-> words, num_steps |-> steps(raw)]

\* what the variables hold before the step that sets them
None == "none"
NoAir == [number_steps |-> -1]
NoChallenges == [alpha |-> -1, z |-> -1]
NoEvaluations == [row |-> -1]
NoBoundary == [called |-> FALSE, panicked |-> FALSE, constraints |-> << >>]

Init ==
    /\ pc = "start"
    /\ raw_trace \in RawTraces
    /\ public_input = PublicInputOf(raw_trace)
    /\ transcript \in {[draws |-> d, pos |-> 0] : d \in [1 .. 2 -> ChallengeValues]}
    /\ air = NoAir
    /\ main_trace = << >>
    /\ rap_challenges = NoChallenges
    /\ aux_trace = << >>
    /\ evaluations = NoEvaluations
    /\ boundary = NoBoundary
    /\ call = [fn |-> None]

New ==
    /\ pc = "start"
    /\ air' = new(Len(public_input.program), steps(raw_trace))
    /\ pc' = "air"
    /\ UNCHANGED << raw_trace, public_input, transcript, main_trace,
                    rap_challenges, aux_trace, evaluations, boundary, call >>

BuildMainTrace ==
    /\ pc = "air"
    /\ main_trace' = build_main_trace(raw_trace, public_input)
    /\ pc' = "main"
    /\ UNCHANGED << raw_trace, public_input, transcript, air,
                    rap_challenges, aux_trace, evaluations, boundary, call >>

BuildRapChallenges ==
    /\ pc = "main"
    /\ rap_challenges' = build_rap_challenges(transcript)
    /\ transcript' = [transcript EXCEPT !.pos = @ + 2]
    /\ pc' = "challenges"
    /\ UNCHANGED << raw_trace, public_input, air, main_trace,
                    aux_trace, evaluations, boundary, call >>

BuildAuxiliaryTrace ==
    /\ pc = "challenges"
    /\ IF build_auxiliary_trace_panics(main_trace, rap_challenges, public_input)
       THEN /\ pc' = "panic"
            /\ UNCHANGED aux_trace
       ELSE /\ aux_trace' = build_auxiliary_trace(main_trace, rap_challenges, public_input)
            /\ pc' = "aux"
    /\ UNCHANGED << raw_trace, public_input, transcript, air, main_trace,
                    rap_challenges, evaluations, boundary, call >>

\* compute_transition on the frame at one row of the trace
ComputeTransition ==
    /\ pc = "aux"
    /\ \E r \in 0 .. (Len(main_trace) - 1) :
          evaluations' =
              [row |-> r,
               constraints |-> compute_transition(FrameAt(main_trace, aux_trace, r),
                                                  rap_challenges)]
    /\ UNCHANGED << pc, raw_trace, public_input, transcript, air,
                    main_trace, rap_challenges, aux_trace, boundary, call >>

\* the prover asks for them after the auxiliary trace, the verifier right
\* after the challenges; a panic ends the run
BoundaryConstraints ==
    /\ pc \in {"challenges", "aux"}
    /\ ~boundary.called
    /\ \E overflow_checks \in BOOLEAN :
          IF boundary_constraints_panics(air, rap_challenges, public_input, overflow_checks)
          THEN /\ pc' = "panic"
               /\ boundary' = [called |-> TRUE, panicked |-> TRUE, constraints |-> << >>]
          ELSE /\ boundary' = [called |-> TRUE, panicked |-> FALSE,
                               constraints |->
                                   boundary_constraints(air, rap_challenges, public_input)]
               /\ UNCHANGED pc
    /\ UNCHANGED << raw_trace, public_input, transcript, air, main_trace,
                    rap_challenges, aux_trace, evaluations, call >>

Next ==
    \/ New
    \/ BuildMainTrace
    \/ BuildRapChallenges
    \/ BuildAuxiliaryTrace
    \/ ComputeTransition
    \/ BoundaryConstraints

Spec == Init /\ [][Next]_vars

(***************************************************************************)
(* Single calls: each action applies one function to inputs drawn from     *)
(* small sets and records the arguments and what came back.                *)
(***************************************************************************)
\* (address, value) pairs of the streams handed to the helpers
SplicePairs == {<< 0, 0 >>, << 1, 5 >>, << 4, 2 >>}
ProgramValues == {3, 6}
SortPairs == {<< 2, 6 >>, << 2, 4 >>, << 1, 4 >>, << 18, 5 >>, << 0, 0 >>}
PermPairs == {<< 0, 0 >>, << 1, 5 >>, << 3, 2 >>}

Firsts(pairs) == [i \in 1 .. Len(pairs) |-> pairs[i][1]]
Seconds(pairs) == [i \in 1 .. Len(pairs) |-> pairs[i][2]]

\* the frames handed to compute_transition on its own: the rows of the
\* trace of one honest run (the run the state holds), with the selector of
\* the current row and one more cell of either row overwritten
SampleRaw == [instrs |-> << "imm", "mul" >>, n_steps |-> 3, tamper |-> NoTamper]
SampleChallenges == [alpha |-> 1, z |-> 2]
SampleMain == build_main_trace(SampleRaw, PublicInputOf(SampleRaw))
SampleAux == build_auxiliary_trace(SampleMain, SampleChallenges, PublicInputOf(SampleRaw))
SelectorValues == {0, 1, 2}
CellValues == {0, 3}

Overwrite(base, s, which, c, v) ==
    IF which = 0
    THEN << [base[1] EXCEPT ![FRAME_SELECTOR] = s, ![c] = IF c = FRAME_SELECTOR THEN s ELSE v],
            base[2] >>
    ELSE << [base[1] EXCEPT ![FRAME_SELECTOR] = s], [base[2] EXCEPT ![c] = v] >>

transition_call(frame, ch) ==
    [fn |-> "compute_transition", frame |-> frame, rap_challenges |-> ch,
     ret |-> compute_transition(frame, ch)]

InitUnits ==
    /\ pc = "units"
    /\ raw_trace = SampleRaw
    /\ public_input = PublicInputOf(SampleRaw)
    /\ transcript = [draws |-> << SampleChallenges.alpha, SampleChallenges.z >>, pos |-> 2]
    /\ air = new(Len(public_input.program), steps(SampleRaw))
    /\ main_trace = SampleMain
    /\ rap_challenges = SampleChallenges
    /\ aux_trace = SampleAux
    /\ evaluations = NoEvaluations
    /\ boundary = NoBoundary
    /\ call = [fn |-> None]

CallNew ==
    /\ pc = "units"
    /\ \E program_size \in 0 .. MaxSize, number_steps \in 0 .. MaxSize :
          call' = [fn |-> "new", program_size |-> program_size,
                   number_steps |-> number_steps,
                   ret |-> new(program_size, number_steps)]
    /\ pc' = "called"
    /\ UNCHANGED call_frame

CallAddProgram ==
    /\ pc = "units"
    /\ \E pairs \in SeqsUpTo(SplicePairs, MaxLen), program \in SeqsUpTo(ProgramValues, MaxProg) :
          LET addresses == Firsts(pairs)
              values == Seconds(pairs)
              panicked == add_program_panics(addresses, values, program)
          IN  call' = [fn |-> "add_program_in_public_input_section",
                       addresses |-> addresses, values |-> values, program |-> program,
                       panicked |-> panicked,
                       ret |-> IF panicked THEN << >>
                               ELSE add_program_in_public_input_section(addresses, values, program),
                       \* the arguments are borrowed: the splices work on clones
                       addresses_after |-> addresses, values_after |-> values]
    /\ pc' = "called"
    /\ UNCHANGED call_frame

CallSort ==
    /\ pc = "units"
    /\ \E pairs \in SeqsUpTo(SortPairs, MaxLen) :
          call' = [fn |-> "sort_columns_by_memory_address",
                   adresses |-> Firsts(pairs), values |-> Seconds(pairs),
                   ret |-> sort_columns_by_memory_address(Firsts(pairs), Seconds(pairs))]
    /\ pc' = "called"
    /\ UNCHANGED call_frame

CallGeneratePermutation ==
    /\ pc = "units"
    /\ \E n \in 0 .. MaxLen, alpha \in ChallengeValues, z \in ChallengeValues :
       \E original \in [1 .. n -> PermPairs], sorted \in [1 .. n -> PermPairs] :
          LET ch == [alpha |-> alpha, z |-> z]
              panicked == generate_permutation_argument_column_panics(
                              Firsts(original), Seconds(original),
                              Firsts(sorted), Seconds(sorted), ch)
          IN  call' = [fn |-> "generate_permutation_argument_column",
                       addresses_original |-> Firsts(original),
                       values_original |-> Seconds(original),
                       addresses_sorted |-> Firsts(sorted),
                       values_sorted |-> Seconds(sorted),
                       rap_challenges |-> ch,
                       panicked |-> panicked,
                       ret |-> IF panicked THEN << >>
                               ELSE generate_permutation_argument_column(
                                        Firsts(original), Seconds(original),
                                        Firsts(sorted), Seconds(sorted), ch)]
    /\ pc' = "called"
    /\ UNCHANGED call_frame

CallComputeTransition ==
    /\ pc = "units"
    /\ \E r \in 0 .. (Len(main_trace) - 1), s \in SelectorValues, which \in {0, 1},
          c \in 0 .. (MainCols + AuxCols - 1), v \in CellValues :
          call' = transition_call(Overwrite(FrameAt(main_trace, aux_trace, r), s, which, c, v),
                                  rap_challenges)
    /\ pc' = "called"
    /\ UNCHANGED call_frame

\* tables of three columns of offsets (18 is -1), and the columns selected
OffsetValues == {1, 4, 18}
OffsetTables == UNION {[1 .. n -> [0 .. 2 -> OffsetValues]] : n \in 0 .. MaxRows}
ColumnSelections == {<< 0, 1, 2 >>, << 2, 0 >>, << 1 >>}

CallFillOffsets ==
    /\ pc = "units"
    /\ \E trace \in OffsetTables, columns_indices \in ColumnSelections :
          LET panicked == fill_offsets_missing_values_panics(trace, columns_indices)
          IN  call' = [fn |-> "fill_offsets_missing_values",
                       trace |-> trace, columns_indices |-> columns_indices,
                       panicked |-> panicked,
                       ret |-> IF panicked THEN << >>
                               ELSE fill_offsets_missing_values(trace, columns_indices)]
    /\ pc' = "called"
    /\ UNCHANGED call_frame

\* a 64-bit instruction word, as its four 16-bit limbs from the lowest:
\* off_dst, off_op0, off_op1 and the flags
LimbValues == {0, 1, 18, 32768, 65535}
FlagLimbs == {2 ^ i : i \in 0 .. 15} \cup {0, 21845, 32767, 43690, 65535}
Words == LimbValues \X LimbValues \X LimbValues \X FlagLimbs

Bit(limb, i) == (limb \div (2 ^ i)) % 2

\* the word as a field element: Horner over the limbs, reduced at each step
FieldOfWord(word) ==
    LET h3 == word[4] % FieldOrder
        h2 == (h3 * 65536 + word[3]) % FieldOrder
        h1 == (h2 * 65536 + word[2]) % FieldOrder
    IN  (h1 * 65536 + word[1]) % FieldOrder

\* the row that holds a word unpacked: the 16 flag bits, the three offsets
\* and the word itself, the selector 1 and 0 elsewhere
UnpackedRow(word) ==
    [c \in 0 .. (MainCols + AuxCols - 1) |->
        IF c <= 15 THEN Bit(word[4], c)
        ELSE IF c = OFF_DST THEN FromU64(word[1])
        ELSE IF c = OFF_OP0 THEN FromU64(word[2])
        ELSE IF c = OFF_OP1 THEN FromU64(word[3])
        ELSE IF c = FRAME_INST THEN FieldOfWord(word)
        ELSE IF c = FRAME_SELECTOR THEN 1
        ELSE 0]

CallOnUnpackedWord ==
    /\ pc = "units"
    /\ \E word \in Words :
          call' = [fn |-> "compute_transition_on_word", word |-> word,
                   frame |-> << UnpackedRow(word), UnpackedRow(word) >>,
                   rap_challenges |-> rap_challenges,
                   ret |-> compute_transition(<< UnpackedRow(word), UnpackedRow(word) >>,
                                              rap_challenges)]
    /\ pc' = "called"
    /\ UNCHANGED call_frame

NextUnits ==
    \/ CallNew
    \/ CallAddProgram
    \/ CallSort
    \/ CallGeneratePermutation
    \/ CallComputeTransition
    \/ CallFillOffsets
    \/ CallOnUnpackedWord

SpecUnits == InitUnits /\ [][NextUnits]_vars

(***************************************************************************)
(* Properties of a proving run (specification Spec).                       *)
(***************************************************************************)
Honest == raw_trace.tamper = NoTamper

Evaluated == pc = "aux" /\ evaluations # NoEvaluations

\* the rows at which constraint k is enforced: all but its last
\* transition_exemptions[k] rows
NonExempt(k, r) == r < Len(main_trace) - transition_exemptions[k + 1]

ProgramSize == Len(public_input.program)

\* C1: on the main and auxiliary trace of an honest execution, every one of
\* the 43 constraints evaluates to zero on the frame at every row that is
\* not among the constraint's exempt last rows.
C1_HonestTraceVanishes ==
    (Evaluated /\ Honest) =>
        \A k \in 0 .. (NumConstraints - 1) :
            NonExempt(k, evaluations.row) => evaluations.constraints[k] = 0

\* C3: the table build_main_trace returns has 34 columns and exactly
\* context.trace_length rows.
C3_MainTraceHasTraceLengthRows ==
    pc = "main" =>
        /\ Len(main_trace) = air.context.trace_length
        /\ \A r \in 1 .. Len(main_trace) : DOMAIN main_trace[r] = 0 .. (MainCols - 1)

\* the rows build_main_trace was handed, and the rows it appended to a
\* table that began with `handed` rows
ExecutionRowsOf(raw) == build_cairo_execution_trace(raw)

AppendedRows(handed) == SubSeq(main_trace, handed + 1, Len(main_trace))

ExecutionPart(handed) == SubSeq(main_trace, 1, handed)

CeilDiv4(n) == (n + 3) \div 4

\* C4 (as stated): after the num_steps execution rows come exactly
\* ceil(P / 4) + 1 rows, every column of which is zero; the execution rows
\* are unchanged.
C4_PaddingRowsCeil ==
    pc = "main" =>
        /\ Len(AppendedRows(steps(raw_trace))) = CeilDiv4(ProgramSize) + 1
        /\ \A r \in 1 .. (CeilDiv4(ProgramSize) + 1) :
              /\ steps(raw_trace) + r \in DOMAIN main_trace
              /\ main_trace[steps(raw_trace) + r] = ZeroRow(MainCols)
        /\ ExecutionPart(steps(raw_trace)) = ExecutionRowsOf(raw_trace)

\* C4: after the num_steps execution rows come exactly floor(P / 4) + 1
\* rows, every column of which (flags, registers, addresses, values,
\* offsets, t0, t1, mul, selector) is zero; the execution rows are
\* unchanged.
C4_PaddingRowsFloor ==
    pc = "main" =>
        /\ Len(ExecutionRowsOf(raw_trace)) = steps(raw_trace)
        /\ Len(main_trace) = steps(raw_trace) + (ProgramSize \div 4) + 1
        /\ \A r \in 1 .. Len(AppendedRows(steps(raw_trace))) :
              \A c \in 0 .. (MainCols - 1) : AppendedRows(steps(raw_trace))[r][c] = 0
        /\ ExecutionPart(steps(raw_trace)) = ExecutionRowsOf(raw_trace)

\* a run of three steps whose program of five words is not a multiple of
\* four long, padded behind execution rows that are not zero
C4_Witness ==
    /\ pc = "main"
    /\ steps(raw_trace) = 3
    /\ ProgramSize = 5
    /\ Len(main_trace) = 5
    /\ main_trace[3][FRAME_SELECTOR] = 1
    /\ main_trace[4] = ZeroRow(MainCols)

\* the product over the program of z - ((i + 1) + alpha * program[i]),
\* i counted from 0
RECURSIVE ProgramProduct(_, _, _)
ProgramProduct(ch, program, from) ==
    IF from > Len(program) THEN 1
    ELSE FMul(FSub(ch.z, FAdd(FromU64(from), FMul(ch.alpha, program[from]))),
              ProgramProduct(ch, program, from + 1))

\* the last entry of the permutation column: the last row of
\* PERMUTATION_ARGUMENT_COL_3
PermutationLast == aux_trace[Len(aux_trace)][PERMUTATION_ARGUMENT_COL_3 - MainCols]

\* C5: when the auxiliary trace is built (no denominator was zero), the
\* last entry of the permutation column is z^P divided by the product over
\* the program of z - ((i + 1) + alpha * program[i]), the value that
\* boundary_constraints pins.
C5_PermutationFinalValue ==
    pc = "aux" =>
        LET product == ProgramProduct(rap_challenges, public_input.program, 1)
        IN  /\ product # 0
            /\ FMul(PermutationLast, product) = FPow(rap_challenges.z, ProgramSize)
            /\ boundary_constraints(air, rap_challenges, public_input)[5].value
                   = PermutationLast

\* the auxiliary trace of a three-step run with a program of five words and
\* a tampered cell, whose grand product does not end at 0 or 1
C5_Witness ==
    /\ pc = "aux"
    /\ ~Honest
    /\ steps(raw_trace) = 3
    /\ ProgramSize = 5
    /\ PermutationLast \notin {0, 1}

\* the five constraints of the documentation, the final registers at row
\* last_step
FiveConstraints(cs, last_step, product) ==
    /\ Len(cs) = 5
    /\ cs[1] = [col |-> 19, step |-> 0, value |-> public_input.pc_init]
    /\ cs[2] = [col |-> 17, step |-> 0, value |-> public_input.ap_init]
    /\ cs[3] = [col |-> 19, step |-> last_step, value |-> public_input.pc_final]
    /\ cs[4] = [col |-> 17, step |-> last_step, value |-> public_input.ap_final]
    /\ cs[5].col = 45
    /\ cs[5].step = air.context.trace_length - 1
    /\ FMul(cs[5].value, product) = FPow(rap_challenges.z, ProgramSize)

\* C6 (as stated): for every public input and every pair of challenges,
\* boundary_constraints returns exactly five constraints: pc_init and
\* ap_init at row 0, pc_final and ap_final at row num_steps - 1, and the
\* final permutation value at column 45 of row trace_length - 1.
C6_FiveConstraintsAlways ==
    boundary.called =>
        FiveConstraints(boundary.constraints, public_input.num_steps - 1,
                        ProgramProduct(rap_challenges, public_input.program, 1))

\* C6: for every public input and every pair of challenges for which the
\* product over the program of z - ((i + 1) + alpha * program[i]) is not
\* zero (the final permutation value is a quotient by it), and an AIR of
\* at least one step, boundary_constraints returns exactly those five
\* constraints, the final registers at row number_steps - 1 of the AIR.
\* With no step the subtraction number_steps - 1 underflows: the call
\* fails, or the row of the final registers is usize::MAX.
C6_FiveConstraintsWhenDefined ==
    (boundary.called /\ ProgramProduct(rap_challenges, public_input.program, 1) # 0) =>
        LET product == ProgramProduct(rap_challenges, public_input.program, 1)
        IN  IF air.number_steps = 0
            THEN \/ boundary.panicked
                 \/ FiveConstraints(boundary.constraints, -1, product)
            ELSE /\ ~boundary.panicked
                 /\ FiveConstraints(boundary.constraints, air.number_steps - 1, product)

\* the constraints of a three-step run with a program of five words
C6_Witness ==
    /\ boundary.called
    /\ ~boundary.panicked
    /\ air.number_steps = 3
    /\ ProgramSize = 5
    /\ boundary.constraints[3].step = 2
    /\ boundary.constraints[5].step = 7
    /\ boundary.constraints[5].value \notin {0, 1}

\* C11: a call of build_rap_challenges takes exactly two draws from the
\* transcript, the first becomes alpha and the second z; the transcript is
\* touched by no other step.
C11_AlphaThenZ ==
    [][/\ rap_challenges' # rap_challenges =>
             /\ transcript'.pos = transcript.pos + 2
             /\ transcript'.draws = transcript.draws
             /\ rap_challenges'.alpha = transcript.draws[transcript.pos + 1]
             /\ rap_challenges'.z = transcript.draws[transcript.pos + 2]
       /\ transcript' # transcript => rap_challenges' # rap_challenges]_vars

\* challenges drawn from a transcript whose first two draws differ
C11_Witness ==
    /\ pc = "challenges"
    /\ transcript.pos = 2
    /\ transcript.draws[1] # transcript.draws[2]
    /\ rap_challenges.alpha = transcript.draws[1]
    /\ rap_challenges.z = transcript.draws[2]

Pins(cs, col, step, value) ==
    \E i \in 1 .. Len(cs) : cs[i] = [col |-> col, step |-> step, value |-> value]

\* C15: the constraints boundary_constraints returns pin fp at row 0 as
\* well as ap at row 0 to ap_init (ap_0 = fp_0 = ap_i), next to
\* ap_t = ap_f, pc_0 = pc_i and pc_t = pc_f.
C15_InitialFpPinned ==
    (boundary.called /\ ~boundary.panicked) =>
        /\ Pins(boundary.constraints, FRAME_AP, 0, public_input.ap_init)
        /\ Pins(boundary.constraints, FRAME_FP, 0, public_input.ap_init)
        /\ Pins(boundary.constraints, FRAME_PC, 0, public_input.pc_init)

\* C16: CairoAIR::new yields no usable AIR for number_steps = 0, so
\* boundary_constraints is never called on an AIR of no step, where it
\* computes the row number_steps - 1.
C16_NoBoundaryCallWithoutSteps ==
    boundary.called => air.number_steps >= 1

\* C17: on a main trace from build_main_trace, the last P entries of the
\* flattened address and value streams, the ones the splice of the program
\* overwrites, lie in the zero padding rows (the padding holds
\* 4 * ((P >> 2) + 1) > P entries): the splice index does not underflow, no
\* entry of an execution row is overwritten, and at least one padding entry
\* (address 0, value 0) is left after the splice.
C17_SpliceWithinPadding ==
    pc = "challenges" =>
        LET addresses == addresses_original_of(main_trace)
            values == values_original_of(main_trace)
            n == Len(addresses)
            P == ProgramSize
            executed == 4 * Len(ExecutionRowsOf(raw_trace))
            spliced == add_program_in_public_input_section(addresses, values,
                                                           public_input.program)
        IN  /\ Len(values) = n
            /\ n - executed = 4 * ((P \div 4) + 1)
            /\ ~add_program_panics(addresses, values, public_input.program)
            /\ n - P > executed
            /\ \A i \in (n - P + 1) .. n : addresses[i] = 0 /\ values[i] = 0
            /\ \A i \in 1 .. executed :
                  spliced[1][i] = addresses[i] /\ spliced[2][i] = values[i]
            /\ \E i \in (executed + 1) .. (n - P) :
                  spliced[1][i] = 0 /\ spliced[2][i] = 0

\* three steps and a program of five words: of the eight padding entries
\* the last five take the program and three stay (0, 0)
C17_Witness ==
    /\ pc = "challenges"
    /\ steps(raw_trace) = 3
    /\ ProgramSize = 5
    /\ Len(addresses_original_of(main_trace)) = 20
    /\ addresses_original_of(main_trace)[12] # 0
    /\ sorted_streams(main_trace, public_input)[1][1] = 0
    /\ sorted_streams(main_trace, public_input)[1][3] = 0
    /\ sorted_streams(main_trace, public_input)[1][4] # 0

\* C18: with the 12 columns build_auxiliary_trace returns appended to the
\* main trace as columns 34..45, honest or not, compute_transition gives 0
\* at the indices 39, 40, 41 on every row and at 42 on every row but the
\* last.
C18_PermutationConstraintsAgree ==
    Evaluated =>
        /\ Len(aux_trace) = Len(main_trace)
        /\ \A k \in {39, 40, 41} : evaluations.constraints[k] = 0
        /\ evaluations.row < Len(main_trace) - 1 => evaluations.constraints[42] = 0

\* a row of a tampered trace, not the last, on which the grand product
\* moves and some other constraint is not met
C18_Witness ==
    /\ Evaluated
    /\ ~Honest
    /\ evaluations.row < Len(main_trace) - 1
    /\ aux_trace[evaluations.row + 1][8] \notin {0, 1}
    /\ aux_trace[evaluations.row + 1][11] # aux_trace[evaluations.row + 1][8]
    /\ \E k \in 16 .. 38 : evaluations.constraints[k] # 0
    /\ evaluations.constraints[42] = 0

(***************************************************************************)
(* Properties of single calls (specification SpecUnits).                   *)
(***************************************************************************)
IsPowerOfTwo(n) == \E e \in 0 .. n : 2 ^ e = n

\* C2: the trace_length stored in the context is the smallest power of two
\* not below number_steps + (program_size >> 2) + 1; it is a power of two
\* and exceeds number_steps.
C2_TraceLengthPowerOfTwo ==
    call.fn = "new" =>
        LET L0 == call.number_steps + (call.program_size \div 4) + 1
            t == call.ret.context.trace_length
        IN  /\ IsPowerOfTwo(t)
            /\ t >= L0
            /\ \A m \in 1 .. t : (IsPowerOfTwo(m) /\ m >= L0) => m >= t
            /\ t > call.number_steps

\* new was called with a sum that is a power of two itself
C2_Witness ==
    /\ call.fn = "new"
    /\ call.number_steps = 6
    /\ call.program_size = 5
    /\ call.ret.context.trace_length = 8

WithSelector(frame, s) == << [frame[1] EXCEPT ![FRAME_SELECTOR] = s], frame[2] >>

\* C7: with FRAME_SELECTOR of the current row 0, the constraints of index
\* 16 through 30 are zero whatever the other columns hold; the constraints
\* 0 through 15 and 31 through 42 do not depend on the selector.
C7_SelectorGates ==
    call.fn = "compute_transition" =>
        /\ call.frame[1][FRAME_SELECTOR] = 0 =>
              \A k \in 16 .. 30 : call.ret[k] = 0
        /\ \A s \in FE :
              LET other == compute_transition(WithSelector(call.frame, s),
                                              call.rap_challenges)
              IN  \A k \in (0 .. 15) \cup (31 .. 42) : other[k] = call.ret[k]

\* a frame with selector 0 on which the assert-equal constraint would not
\* vanish with selector 1, and a constraint outside the range that does not
\* vanish
C7_Witness ==
    /\ call.fn = "compute_transition"
    /\ call.frame[1][FRAME_SELECTOR] = 0
    /\ compute_transition(WithSelector(call.frame, 1), call.rap_challenges)[ASSERT_EQ] # 0
    /\ \E k \in (0 .. 15) \cup (31 .. 42) : call.ret[k] # 0

\* C8: for streams of length n and a program of P <= n words the call
\* returns two streams of length n: the first n - P entries are those of the
\* inputs, the last P addresses are 1, 2, ..., P and the last P values the
\* program; the streams passed in are not modified.
C8_ProgramSpliced ==
    (call.fn = "add_program_in_public_input_section"
        /\ Len(call.program) <= Len(call.addresses)) =>
        LET n == Len(call.addresses)
            P == Len(call.program)
        IN  /\ ~call.panicked
            /\ Len(call.ret) = 2
            /\ Len(call.ret[1]) = n
            /\ Len(call.ret[2]) = n
            /\ \A i \in 1 .. (n - P) :
                  call.ret[1][i] = call.addresses[i] /\ call.ret[2][i] = call.values[i]
            /\ \A j \in 1 .. P :
                  call.ret[1][n - P + j] = j /\ call.ret[2][n - P + j] = call.program[j]
            /\ call.addresses_after = call.addresses
            /\ call.values_after = call.values

\* a program of two words spliced over the tail of three entries
C8_Witness ==
    /\ call.fn = "add_program_in_public_input_section"
    /\ call.addresses = << 4, 0, 4 >>
    /\ call.values = << 2, 0, 2 >>
    /\ call.program = << 6, 3 >>
    /\ call.ret = << << 4, 1, 2 >>, << 2, 6, 3 >> >>

AddressIs(a, pairs) ==
    LET at == {i \in 1 .. Len(pairs) : pairs[i][1] = a}
        RECURSIVE pick(_)
        pick(i) == IF i > Len(pairs) THEN << >>
                   ELSE (IF i \in at THEN << pairs[i] >> ELSE << >>) \o pick(i + 1)
    IN  pick(1)

Occurrences(p, pairs) == Cardinality({i \in 1 .. Len(pairs) : pairs[i] = p})

\* C9: the returned streams are ordered by non-decreasing representative of
\* the address, hold the same multiset of (address, value) pairs as the
\* inputs, and pairs of equal address keep their input order.
C9_StableSort ==
    call.fn = "sort_columns_by_memory_address" =>
        LET in == zip(call.adresses, call.values)
            out == zip(call.ret[1], call.ret[2])
        IN  /\ Len(call.ret[1]) = Len(call.adresses)
            /\ Len(call.ret[2]) = Len(call.values)
            /\ \A i \in 1 .. Len(out) : \A j \in i .. Len(out) :
                  representative(out[i][1]) <= representative(out[j][1])
            /\ \A p \in FE \X FE : Occurrences(p, in) = Occurrences(p, out)
            /\ \A a \in FE : AddressIs(a, in) = AddressIs(a, out)

\* two entries of one address behind which a smaller address comes
C9_Witness ==
    /\ call.fn = "sort_columns_by_memory_address"
    /\ call.adresses = << 2, 2, 1 >>
    /\ call.values = << 6, 4, 4 >>
    /\ call.ret = << << 1, 2, 2 >>, << 4, 6, 4 >> >>

Numerator(c, i) ==
    FSub(c.rap_challenges.z,
         FAdd(c.addresses_original[i], FMul(c.rap_challenges.alpha, c.values_original[i])))

Denominator(c, i) ==
    FSub(c.rap_challenges.z,
         FAdd(c.addresses_sorted[i], FMul(c.rap_challenges.alpha, c.values_sorted[i])))

\* C10: for streams of one length n >= 1 and no zero denominator the column
\* has length n, its first entry is the first quotient
\* (z - (a_0 + alpha v_0)) / (z - (a'_0 + alpha v'_0)) and every later entry
\* the entry before it times the quotient of its index.
C10_GrandProductRecurrence ==
    (call.fn = "generate_permutation_argument_column"
        /\ Len(call.addresses_sorted) >= 1
        /\ \A i \in 1 .. Len(call.addresses_sorted) : Denominator(call, i) # 0) =>
        /\ ~call.panicked
        /\ Len(call.ret) = Len(call.addresses_sorted)
        /\ FMul(call.ret[1], Denominator(call, 1)) = Numerator(call, 1)
        /\ \A i \in 2 .. Len(call.ret) :
              FMul(call.ret[i], Denominator(call, i))
                  = FMul(call.ret[i - 1], Numerator(call, i))

\* a column of three entries over streams that differ, ending off 0 and 1
C10_Witness ==
    /\ call.fn = "generate_permutation_argument_column"
    /\ ~call.panicked
    /\ Len(call.ret) = 3
    /\ call.addresses_original # call.addresses_sorted
    /\ call.ret[2] \notin {0, 1, call.ret[1]}
    /\ call.ret[3] \notin {0, 1, call.ret[2]}

\* the constraints whose formula reads the next row of the frame
ReadsNext == {20, 21, 22, 23, 34, 38, 42}

\* the constraints of a frame made of the current row of the call and row r
\* of the trace as its next row
WithNextRow(c, r) ==
    compute_transition(<< c.frame[1], FullRow(main_trace, aux_trace, r) >>,
                       c.rap_challenges)

\* C12: the context has 43 exemptions, one per constraint: 1 for 0..30, 0
\* for 31, 32, 33, 35, 36, 37, 39, 40, 41 and 1 for 34, 38, 42; a
\* constraint whose value changes with the next row is one of 20, 21, 22,
\* 23, 34, 38, 42 and has exemption at least 1, so a constraint with
\* exemption 0 reads the current row only.
C12_ExemptionsCoverNextRow ==
    /\ call.fn = "new" =>
          LET e == call.ret.context.transition_exemptions
          IN  /\ Len(e) = 43
              /\ call.ret.context.num_transition_constraints = 43
              /\ \A k \in 0 .. 42 :
                    e[k + 1] = IF k \in (0 .. 30) \cup {34, 38, 42} THEN 1 ELSE 0
    /\ call.fn = "compute_transition" =>
          \A r \in 0 .. (Len(main_trace) - 1) :
              LET other == WithNextRow(call, r)
              IN  \A k \in 0 .. 42 :
                     other[k] # call.ret[k] =>
                        /\ k \in ReadsNext
                        /\ air.context.transition_exemptions[k + 1] >= 1

\* a frame on which a register constraint, a memory constraint and the
\* wrapping permutation constraint all change with the next row
C12_Witness ==
    /\ call.fn = "compute_transition"
    /\ call.frame[1][FRAME_SELECTOR] = 1
    /\ \E r \in 0 .. (Len(main_trace) - 1) :
          LET other == WithNextRow(call, r)
          IN  /\ other[NEXT_AP] # call.ret[NEXT_AP]
              /\ other[MEMORY_INCREASING_3] # call.ret[MEMORY_INCREASING_3]
              /\ other[PERMUTATION_ARGUMENT_3] # call.ret[PERMUTATION_ARGUMENT_3]

\* the selected entries of the table of a call in row-major order, biased
\* by 2^15
BiasedEntries(c) ==
    LET cols == Len(c.columns_indices)
    IN  [i \in 1 .. (Len(c.trace) * cols) |->
           FAdd(c.trace[((i - 1) \div cols) + 1][c.columns_indices[((i - 1) % cols) + 1]],
                b15)]

Count(x, xs) == Cardinality({i \in 1 .. Len(xs) : xs[i] = x})

ValuesOf(xs) == {xs[i] : i \in 1 .. Len(xs)}

Least(S) == CHOOSE x \in S : \A y \in S : x <= y

Greatest(S) == CHOOSE x \in S : \A y \in S : x >= y

\* the integers strictly between two entries that are no entry themselves
GapValues(xs) ==
    {x \in Least(ValuesOf(xs)) .. Greatest(ValuesOf(xs)) : x \notin ValuesOf(xs)}

\* C13: for a selection with at least one entry the two streams returned
\* have one length, a multiple of 3.  new_column_padded is k < 3 zeros, then
\* the biased entries in non-decreasing order with every integer of a gap
\* put in once (neighbours differ by 0 or 1); offset_columns is the biased
\* entries in row-major order, then the gap values, then k zeros.  The two
\* are equal as multisets.
C13_OffsetsFilled ==
    (call.fn = "fill_offsets_missing_values" /\ Len(BiasedEntries(call)) >= 1) =>
        LET biased == BiasedEntries(call)
            n == Len(biased)
            gaps == GapValues(biased)
            g == Cardinality(gaps)
            offset_columns == call.ret[1]
            new_column_padded == call.ret[2]
            k == Len(new_column_padded) - n - g
            body == SubSeq(new_column_padded, k + 1, Len(new_column_padded))
            inserted == SubSeq(offset_columns, n + 1, n + g)
        IN  /\ ~call.panicked
            /\ Len(offset_columns) = Len(new_column_padded)
            /\ Len(new_column_padded) % 3 = 0
            /\ k \in 0 .. 2
            /\ \A i \in 1 .. k : new_column_padded[i] = 0
            /\ body[1] = Least(ValuesOf(biased))
            /\ body[Len(body)] = Greatest(ValuesOf(biased))
            /\ \A i \in 1 .. (Len(body) - 1) : body[i + 1] - body[i] \in {0, 1}
            /\ \A x \in FE :
                  Count(x, body) = Count(x, biased) + (IF x \in gaps THEN 1 ELSE 0)
            /\ SubSeq(offset_columns, 1, n) = biased
            /\ ValuesOf(inserted) = gaps
            /\ \A x \in gaps : Count(x, inserted) = 1
            /\ \A i \in 1 .. k : offset_columns[n + g + i] = 0
            /\ \A x \in FE : Count(x, offset_columns) = Count(x, new_column_padded)

\* two rows, the columns 2 and 0 selected: a repeated entry, two gaps and
\* two zeros of padding
C13_Witness ==
    /\ call.fn = "fill_offsets_missing_values"
    /\ call.columns_indices = << 2, 0 >>
    /\ call.trace = << [c \in 0 .. 2 |-> IF c = 2 THEN 4 ELSE 1],
                       [c \in 0 .. 2 |-> IF c = 2 THEN 18 ELSE 4] >>
    /\ call.ret = << << 16, 13, 11, 16, 12, 14, 15, 0, 0 >>,
                     << 0, 0, 11, 12, 13, 14, 15, 16, 16 >> >>

\* C14 (as stated): for any 64-bit instruction word, the row that holds
\* its 16 flag bits, its three 16-bit offsets and the word, with selector 1,
\* has constraint 16 equal to 0: repacking reproduces FRAME_INST.
C14_RoundTripAnyWord ==
    call.fn = "compute_transition_on_word" => call.ret[INST] = 0

\* C14: for any 64-bit instruction word whose highest bit (flag 15) is 0,
\* the row that holds its flag bits, its three 16-bit offsets and the word,
\* with selector 1, has constraint 16 equal to 0, and the bit constraints
\* 0..15 are 0 as well.  With the highest bit 1 the repacked word lacks
\* 2^63: constraint 16 is not 0, and neither is constraint 15.
C14_RoundTripBelowTopBit ==
    call.fn = "compute_transition_on_word" =>
        /\ \A k \in 0 .. 14 : call.ret[k] = 0
        /\ IF Bit(call.word[4], 15) = 0
           THEN call.ret[INST] = 0 /\ call.ret[15] = 0
           ELSE call.ret[INST] # 0 /\ call.ret[15] = 1

\* a word with flags 0, 2, 4, ..., 14 set and offsets that are not small
C14_Witness ==
    /\ call.fn = "compute_transition_on_word"
    /\ call.word = << 65535, 32768, 18, 21845 >>
    /\ call.frame[1][FRAME_INST] # 0
    /\ call.frame[1][F_OPC_AEQ] = 1
    /\ call.frame[1][F_OPC_RET] = 0
    /\ call.ret[INST] = 0

====
